---- MODULE Spec2Model ----
(***************************************************************************)
(* Model of thehonoredonethe320kba.py: the DownloadWorker thread           *)
(* (build_cmd, run, stop), the child process it supervises, and the        *)
(* DarkBlackUI handlers that start, cancel and finish a download.          *)
(* Text is modelled by TLA+ strings; Len, \o and SubSeq act on them.       *)
(***************************************************************************)
EXTENDS Integers, Sequences, FiniteSets, TLC

VARIABLES
    ui,            \* the widgets' values (QLineEdit texts, combo texts, checks)
    enabled,       \* the widgets' enabled flags
    worker,        \* DarkBlackUI.worker: 0 for None, else the worker's number
    log_view,      \* the lines of the log view
    top_progress,  \* the progress bars' value
    dialogs,       \* the open message boxes, the topmost last
    closed,        \* the window accepted a close event
    frame,         \* <<cfg>> while start_download is past worker.start(), else <<>>
    w,             \* the DownloadWorker objects, by number
    proc,          \* the child processes, by worker number
    created,       \* number of DownloadWorker objects created so far
    cancels,       \* cancel clicks during the current run
    direct         \* TRUE when a DownloadWorker is driven without the window

vars == <<ui, enabled, worker, log_view, top_progress, dialogs, closed, frame,
          w, proc, created, cancels, direct>>

uiVars == <<ui, enabled, worker, log_view, top_progress, dialogs, closed, frame, cancels>>

-----------------------------------------------------------------------------
(* Bounds *)

MaxRuns == 2       \* workers created in one behaviour
MaxLines == 2      \* output lines one child process writes
MaxCancels == 1    \* cancel clicks during one run

-----------------------------------------------------------------------------
(* Module-level constants of the program *)

VIDEO_QUALITIES == <<"Best", "8K", "4K", "1440p", "1080p", "720p", "480p", "360p">>

QUALITY_TO_HEIGHT ==
    [q \in {"8K", "4K", "1440p", "1080p", "720p", "480p", "360p"} |->
        CASE q = "8K" -> "4320"
          [] q = "4K" -> "2160"
          [] q = "1440p" -> "1440"
          [] q = "1080p" -> "1080"
          [] q = "720p" -> "720"
          [] q = "480p" -> "480"
          [] q = "360p" -> "360"]

VIDEO_CONTAINERS == <<"mp4", "webm">>
AUDIO_FORMATS == <<"mp3", "m4a", "opus", "ogg", "flac", "wav">>
AUDIO_BITRATES == <<"128", "192", "256", "320">>
AAC_PROFILES == <<"LC", "HE">>
CHANNELS == <<"auto", "mono", "stereo">>
DEFAULT_TEMPLATE == "%(title)s.%(ext)s"

Range(s) == {s[i] : i \in 1..Len(s)}

-----------------------------------------------------------------------------
(* Python string operations, character by character *)

Min(a, b) == IF a < b THEN a ELSE b
Max(a, b) == IF a > b THEN a ELSE b

\* s[a-1:b], and s[i-1:i]: "" past the end of s
Slice(s, a, b) == SubSeq(s, a, Min(b, Len(s)))
Char(s, i) == Slice(s, i, i)

Whitespace == {" ", "\t", "\n", "\r", "\f"}
Digits == "0123456789"
UpperAlpha == "ABCDEFGHIJKLMNOPQRSTUVWXYZ"
LowerAlpha == "abcdefghijklmnopqrstuvwxyz"

DigitChars == {Char(Digits, i) : i \in 1..10}

IsDigit(c) == c \in DigitChars

RECURSIVE lstrip(_)
lstrip(s) ==
    IF Len(s) > 0 /\ Char(s, 1) \in Whitespace
    THEN lstrip(SubSeq(s, 2, Len(s)))
    ELSE s

RECURSIVE rstrip(_)
rstrip(s) ==
    IF Len(s) > 0 /\ Char(s, Len(s)) \in Whitespace
    THEN rstrip(SubSeq(s, 1, Len(s) - 1))
    ELSE s

strip(s) == rstrip(lstrip(s))

startswith(s, p) == Len(s) >= Len(p) /\ SubSeq(s, 1, Len(p)) = p

contains(s, c) == \E i \in 1..Len(s) : Char(s, i) = c

isdigit(s) == Len(s) > 0 /\ \A i \in 1..Len(s) : IsDigit(Char(s, i))

lowerChar(c) ==
    IF \E i \in 1..26 : Char(UpperAlpha, i) = c
    THEN Char(LowerAlpha, CHOOSE i \in 1..26 : Char(UpperAlpha, i) = c)
    ELSE c

upperChar(c) ==
    IF \E i \in 1..26 : Char(LowerAlpha, i) = c
    THEN Char(UpperAlpha, CHOOSE i \in 1..26 : Char(LowerAlpha, i) = c)
    ELSE c

RECURSIVE lower(_)
lower(s) == IF s = "" THEN "" ELSE lowerChar(Char(s, 1)) \o lower(SubSeq(s, 2, Len(s)))

RECURSIVE upper(_)
upper(s) == IF s = "" THEN "" ELSE upperChar(Char(s, 1)) \o upper(SubSeq(s, 2, Len(s)))

RECURSIVE natstr(_)
natstr(n) == IF n < 10 THEN Char(Digits, n + 1)
             ELSE natstr(n \div 10) \o Char(Digits, (n % 10) + 1)

\* str(n) of an int
str(n) == IF n < 0 THEN "-" \o natstr(0 - n) ELSE natstr(n)

\* sep.join(parts)
RECURSIVE join(_, _)
join(sep, parts) ==
    IF parts = <<>> THEN ""
    ELSE IF Len(parts) = 1 THEN parts[1]
    ELSE parts[1] \o sep \o join(sep, Tail(parts))

\* str(out_dir / name) for a directory without a trailing slash and a name
\* without "." and ".." parts or repeated slashes: an absolute name replaces
\* the directory
PathJoin(dir, name) ==
    IF startswith(name, "/") THEN name ELSE dir \o "/" \o name

-----------------------------------------------------------------------------
(* DownloadWorker.build_cmd *)

PythonExe == "python"

\* build_cmd with a playlist flag that forgets force_single
PlaylistFlag_IgnoresForce(cfg) ==
    IF cfg.allow_playlist THEN "--yes-playlist" ELSE "--no-playlist"

PlaylistFlag(cfg) ==
    IF cfg.allow_playlist /\ ~cfg.force_single THEN "--yes-playlist" ELSE "--no-playlist"

\* build_cmd with a title override that is tested trimmed and used untrimmed
OutTemplate_Untrimmed(cfg) ==
    IF strip(cfg.meta_title_override) # ""
    THEN PathJoin(cfg.out_dir, cfg.meta_title_override \o ".%(ext)s")
    ELSE PathJoin(cfg.out_dir,
                  IF cfg.name_template # "" THEN cfg.name_template ELSE DEFAULT_TEMPLATE)

OutTemplate(cfg) ==
    IF strip(cfg.meta_title_override) # ""
    THEN PathJoin(cfg.out_dir, strip(cfg.meta_title_override) \o ".%(ext)s")
    ELSE PathJoin(cfg.out_dir,
                  IF cfg.name_template # "" THEN cfg.name_template ELSE DEFAULT_TEMPLATE)

MetaArgs(cfg) ==
    (IF strip(cfg.meta_artist) # ""
     THEN <<"-metadata", "artist=" \o strip(cfg.meta_artist)>> ELSE <<>>)
    \o (IF strip(cfg.meta_album) # ""
        THEN <<"-metadata", "album=" \o strip(cfg.meta_album)>> ELSE <<>>)
    \o (IF strip(cfg.meta_title_override) # ""
        THEN <<"-metadata", "title=" \o strip(cfg.meta_title_override)>> ELSE <<>>)

AudioArgs(cfg) ==
    LET fmt == lower(cfg.audio_format)
        q == lower(cfg.ogg_quality)
        profile == upper(cfg.aac_profile)
    IN  (IF fmt = "mp3" /\ cfg.mp3_normalize THEN <<"-filter:a", "loudnorm">> ELSE <<>>)
        \o (IF fmt = "flac" THEN <<"-compression_level", str(cfg.flac_comp_level)>> ELSE <<>>)
        \o (IF fmt \in {"ogg", "opus"} /\ startswith(q, "q")
            THEN <<"-q:a", SubSeq(q, 2, Len(q))>> ELSE <<>>)
        \o (IF fmt = "m4a" /\ profile = "LC" THEN <<"-profile:a", "aac_low">>
            ELSE IF fmt = "m4a" /\ profile = "HE" THEN <<"-profile:a", "aac_he">>
            ELSE <<>>)
        \o (IF cfg.sample_rate # "" /\ isdigit(cfg.sample_rate)
            THEN <<"-ar", cfg.sample_rate>> ELSE <<>>)
        \o (IF cfg.channels # "" /\ cfg.channels \in {"mono", "stereo"}
            THEN <<"-ac", IF cfg.channels = "mono" THEN "1" ELSE "2">> ELSE <<>>)

\* build_cmd with the audio processing tokens added in every mode
FFArgs_AudioAlways(cfg) ==
    MetaArgs(cfg)
    \o AudioArgs(cfg)
    \o (IF strip(cfg.ffmpeg_extra) # "" THEN <<strip(cfg.ffmpeg_extra)>> ELSE <<>>)

FFArgs(cfg) ==
    MetaArgs(cfg)
    \o (IF cfg.mode = "audio" THEN AudioArgs(cfg) ELSE <<>>)
    \o (IF strip(cfg.ffmpeg_extra) # "" THEN <<strip(cfg.ffmpeg_extra)>> ELSE <<>>)

\* build_cmd with a height ceiling on the primary selector only
VideoSelector_FallbackUncapped(qual) ==
    IF qual = "Best" THEN "bestvideo+bestaudio/best"
    ELSE IF qual \in DOMAIN QUALITY_TO_HEIGHT
         THEN "bestvideo[height<=" \o QUALITY_TO_HEIGHT[qual] \o "]+bestaudio/best"
         ELSE "bestvideo+bestaudio/best"

VideoSelector(qual) ==
    IF qual = "Best" THEN "bestvideo+bestaudio/best"
    ELSE IF qual \in DOMAIN QUALITY_TO_HEIGHT
         THEN "bestvideo[height<=" \o QUALITY_TO_HEIGHT[qual]
              \o "]+bestaudio/best[height<=" \o QUALITY_TO_HEIGHT[qual] \o "]"
         ELSE "bestvideo+bestaudio/best"

FormatArgs(cfg) ==
    IF cfg.mode = "audio"
    THEN <<"-f", "bestaudio/best", "--extract-audio",
           "--audio-format", lower(cfg.audio_format),
           "--audio-quality", cfg.audio_bitrate \o "k">>
    ELSE <<"-f", VideoSelector(cfg.video_quality),
           "--merge-output-format", lower(cfg.video_container)>>

build_cmd(cfg) ==
    <<PythonExe, "-m", "yt_dlp", "--newline">>
    \o <<PlaylistFlag(cfg)>>
    \o <<"-o", OutTemplate(cfg)>>
    \o (IF FFArgs(cfg) # <<>> THEN <<"--postprocessor-args", join(" ", FFArgs(cfg))>> ELSE <<>>)
    \o FormatArgs(cfg)
    \o <<strip(cfg.url)>>

\* the command as run() logs it: arguments holding a space are quoted
RECURSIVE QuoteAll(_)
QuoteAll(cmd) ==
    IF cmd = <<>> THEN <<>>
    ELSE <<IF contains(cmd[1], " ") THEN "\"" \o cmd[1] \o "\"" ELSE cmd[1]>>
         \o QuoteAll(Tail(cmd))

CommandLine(cmd) == join(" ", QuoteAll(cmd))

-----------------------------------------------------------------------------
(* The progress pattern  \[download\]\s+(\d+(?:\.\d+)?)%  and pat.search *)

Marker == "[download]"

\* first index at or after i whose character is not in the class
RECURSIVE SpanEnd(_, _, _)
SpanEnd(s, i, class) ==
    IF i <= Len(s) /\ Char(s, i) \in class THEN SpanEnd(s, i + 1, class) ELSE i

\* pat.match at position i: <<>> when it fails, else <<group(1)>>.  The
\* greedy runs are maximal: what follows each run is outside its class.
MatchAt(s, i) ==
    IF Slice(s, i, i + Len(Marker) - 1) # Marker THEN <<>>
    ELSE LET a == i + Len(Marker)
             b == SpanEnd(s, a, Whitespace)
             c == SpanEnd(s, b, DigitChars)
             d == SpanEnd(s, c + 1, DigitChars)
         IN  IF b = a \/ c = b THEN <<>>
             ELSE IF Char(s, c) = "%" THEN <<SubSeq(s, b, c - 1)>>
             ELSE IF Char(s, c) = "." /\ d > c + 1 /\ Char(s, d) = "%"
                  THEN <<SubSeq(s, b, d - 1)>>
             ELSE <<>>

\* pat.search: the leftmost position where the pattern matches
RECURSIVE SearchFrom(_, _)
SearchFrom(s, i) ==
    IF i > Len(s) THEN <<>>
    ELSE IF MatchAt(s, i) # <<>> THEN MatchAt(s, i)
    ELSE SearchFrom(s, i + 1)

search(s) == SearchFrom(s, 1)

RECURSIVE DigitsValue(_)
DigitsValue(s) ==
    IF s = "" THEN 0
    ELSE 10 * DigitsValue(SubSeq(s, 1, Len(s) - 1))
         + (CHOOSE v \in 0..9 : Char(Digits, v + 1) = Char(s, Len(s)))

\* int(float(text)) for text of the form digits or digits.digits, short
\* enough for the double to be exact: the digits before the point
IntOfFloat(text) ==
    DigitsValue(SubSeq(text, 1, SpanEnd(text, 1, DigitChars) - 1))

-----------------------------------------------------------------------------
(* Signals of DownloadWorker *)

Progress(n) == [sig |-> "progress", n |-> n, ok |-> FALSE, text |-> ""]
LogLine(t) == [sig |-> "log_line", n |-> 0, ok |-> FALSE, text |-> t]
Finished(success, msg) == [sig |-> "finished", n |-> 0, ok |-> success, text |-> msg]

\* the reading loop without the clamp to 0..100
LineSignals_NoClamp(raw) ==
    LET line == rstrip(raw)
        m == search(line)
    IN  <<LogLine(line)>>
        \o (IF m # <<>> THEN <<Progress(IntOfFloat(m[1]))>> ELSE <<>>)

\* what one pass of the reading loop emits for a line that was read
LineSignals(raw) ==
    LET line == rstrip(raw)
        m == search(line)
    IN  <<LogLine(line)>>
        \o (IF m # <<>> THEN <<Progress(Min(Max(IntOfFloat(m[1]), 0), 100))>> ELSE <<>>)

LinePercent(raw, old) ==
    LET m == search(rstrip(raw)) IN IF m # <<>> THEN IntOfFloat(m[1]) ELSE old

-----------------------------------------------------------------------------
(* DarkBlackUI: widgets, validate_inputs, build_config *)

OutDir == "/dl"

DefaultUI ==
    [url_edit |-> "", mode_combo |-> "Video",
     video_quality_combo |-> "Best", video_container_combo |-> "mp4",
     audio_format_combo |-> "mp3", audio_bitrate_combo |-> "128",
     sample_rate_combo |-> "", channels_combo |-> "auto",
     mp3_norm_check |-> FALSE, flac_slider |-> 5,
     ogg_combo |-> "q0", m4a_combo |-> "LC",
     out_dir |-> OutDir, allow_playlist |-> TRUE, force_single |-> FALSE,
     template_edit |-> DEFAULT_TEMPLATE, ffmpeg_args |-> "",
     meta_artist |-> "", meta_album |-> "", meta_title |-> ""]

\* validate_inputs without the test of the URL's prefix
ValidationError_NoPrefixCheck(u) ==
    IF strip(u.url_edit) = "" THEN "URL is required." ELSE ""

\* the text of the error box validate_inputs shows, "" when it returns True
ValidationError(u) ==
    LET url == strip(u.url_edit)
        mode == lower(u.mode_combo)
    IN  IF url = "" THEN "URL is required."
        ELSE IF ~(startswith(url, "http://") \/ startswith(url, "https://"))
             THEN "URL must start with http:// or https://"
        ELSE IF mode = "video" /\ u.video_quality_combo \notin Range(VIDEO_QUALITIES)
             THEN "Invalid video quality."
        ELSE IF mode = "video" /\ u.video_container_combo \notin Range(VIDEO_CONTAINERS)
             THEN "Invalid container."
        ELSE IF mode # "video" /\ u.audio_format_combo \notin Range(AUDIO_FORMATS)
             THEN "Invalid audio format."
        ELSE IF mode # "video" /\ u.audio_bitrate_combo \notin Range(AUDIO_BITRATES)
             THEN "Invalid bitrate."
        ELSE ""

\* the widgets after a validate_inputs that returned True
Validated(u) ==
    IF strip(u.template_edit) = "" /\ strip(u.meta_title) = ""
    THEN [u EXCEPT !.template_edit = DEFAULT_TEMPLATE]
    ELSE u

build_config(u) ==
    [url |-> strip(u.url_edit),
     mode |-> lower(u.mode_combo),
     video_quality |-> u.video_quality_combo,
     video_container |-> lower(u.video_container_combo),
     audio_format |-> lower(u.audio_format_combo),
     audio_bitrate |-> u.audio_bitrate_combo,
     sample_rate |-> strip(u.sample_rate_combo),
     channels |-> u.channels_combo,
     mp3_normalize |-> u.mp3_norm_check,
     flac_comp_level |-> u.flac_slider,
     ogg_quality |-> u.ogg_combo,
     aac_profile |-> u.m4a_combo,
     out_dir |-> u.out_dir,
     allow_playlist |-> u.allow_playlist,
     force_single |-> u.force_single,
     name_template |-> IF strip(u.template_edit) # "" THEN strip(u.template_edit)
                       ELSE DEFAULT_TEMPLATE,
     ffmpeg_extra |-> strip(u.ffmpeg_args),
     meta_artist |-> strip(u.meta_artist),
     meta_album |-> strip(u.meta_album),
     meta_title_override |-> strip(u.meta_title)]

\* the lines start_download appends after starting the worker
Summary(cfg) ==
    <<"=== Summary ===", "URL: " \o cfg.url, "Mode: " \o cfg.mode>>
    \o (IF cfg.mode = "audio"
        THEN <<"Audio: " \o cfg.audio_format \o " @ " \o cfg.audio_bitrate \o "k">>
             \o (IF cfg.sample_rate # ""
                 THEN <<"Sample rate: " \o cfg.sample_rate \o " Hz">> ELSE <<>>)
             \o (IF cfg.channels # "" /\ cfg.channels # "auto"
                 THEN <<"Channels: " \o cfg.channels>> ELSE <<>>)
        ELSE <<"Video: " \o cfg.video_quality \o " in " \o cfg.video_container>>)
    \o (IF cfg.meta_artist # "" THEN <<"Artist: " \o cfg.meta_artist>> ELSE <<>>)
    \o (IF cfg.meta_album # "" THEN <<"Album: " \o cfg.meta_album>> ELSE <<>>)
    \o (IF cfg.meta_title_override # ""
        THEN <<"Title override: " \o cfg.meta_title_override>> ELSE <<>>)
    \o (IF cfg.ffmpeg_extra # "" THEN <<"FFmpeg extra: " \o cfg.ffmpeg_extra>> ELSE <<>>)
    \o <<"================">>

\* toggle_controls(running): the start and cancel buttons and every input
toggle_controls(running) ==
    [start |-> ~running, cancel |-> running, inputs |-> ~running,
     video |-> ~running, audio |-> ~running]

\* toggle_mode: the mode-specific controls follow the mode combo
toggle_mode(en, modeText) ==
    [en EXCEPT !.video = (lower(modeText) = "video"),
               !.audio = ~(lower(modeText) = "video")]

-----------------------------------------------------------------------------
(* Worker and process records *)

Runs == 1..MaxRuns

NoWorker ==
    [pc |-> "none", cfg |-> build_config(DefaultUI), stop |-> FALSE, cmd |-> <<>>,
     percent |-> 0, ret |-> <<>>, emitted |-> <<>>, delivered |-> 0,
     stopped_running |-> FALSE]

\* pc: where run() is; ret: <<>> until proc.wait() returned, then <<its value>>;
\* emitted: every signal emitted so far, of which the first `delivered` have
\* had their slots run; stopped_running: stop() was called after the child
\* was launched and before the terminal signal (history)

\* DownloadWorker.stop
stop(wk) ==
    [wk EXCEPT !.stop = TRUE,
               !.stopped_running = @ \/ wk.pc \in {"read", "wait"}]

\* DownloadWorker.__init__ followed by QThread.start
NewWorker(cfg) == [NoWorker EXCEPT !.pc = "start", !.cfg = cfg]

NoProc == [state |-> "none", code |-> 0, out |-> <<>>, nout |-> 0, term |-> FALSE]

\* exit codes of a child that ends by itself, and of one ended by SIGTERM
ExitCodes == {0, 1}
TermCode == -15

MkdirError == "[Errno 13] Permission denied: '/dl'"
PopenError == "[Errno 2] No such file or directory: 'python'"
ReadError == "'utf-8' codec can't decode byte 0xff in position 0: invalid start byte"

\* what the child process may write: lines of text, or bytes whose decoding raises
ProcLines == {"[download]  42.7% of 10MiB\n", "[download] 100% of 10MiB\n"}

ProcItems ==
    {[raises |-> FALSE, text |-> l] : l \in ProcLines}
    \cup {[raises |-> TRUE, text |-> ReadError]}

Emit(r, sigs) == [w[r] EXCEPT !.emitted = @ \o sigs]

-----------------------------------------------------------------------------
(* DownloadWorker.run, one action per blocking or failing step *)

\* run: the blank-URL check
WorkerCheckUrl(r) ==
    /\ w[r].pc = "start"
    /\ w' = [w EXCEPT ![r] =
                IF strip(w[r].cfg.url) = ""
                THEN [Emit(r, <<Finished(FALSE, "URL is required.")>>) EXCEPT !.pc = "done"]
                ELSE [w[r] EXCEPT !.pc = "mkdir"]]
    /\ UNCHANGED <<uiVars, proc, created, direct>>

\* run without the return after the failure of mkdir
WorkerMkdir_NoReturn(r) ==
    /\ w[r].pc = "mkdir"
    /\ \E ok \in BOOLEAN :
          w' = [w EXCEPT ![r] =
                  IF ok THEN [w[r] EXCEPT !.pc = "build"]
                  ELSE [Emit(r, <<Finished(FALSE, "Cannot create output folder: " \o MkdirError)>>)
                            EXCEPT !.pc = "build"]]
    /\ UNCHANGED <<uiVars, proc, created, direct>>

\* run: out_dir.mkdir(parents=True, exist_ok=True), which may raise
WorkerMkdir(r) ==
    /\ w[r].pc = "mkdir"
    /\ \E ok \in BOOLEAN :
          w' = [w EXCEPT ![r] =
                  IF ok THEN [w[r] EXCEPT !.pc = "build"]
                  ELSE [Emit(r, <<Finished(FALSE, "Cannot create output folder: " \o MkdirError)>>)
                            EXCEPT !.pc = "done"]]
    /\ UNCHANGED <<uiVars, proc, created, direct>>

\* run: build_cmd and the two log lines that show the command
WorkerBuild(r) ==
    /\ w[r].pc = "build"
    /\ LET cmd == build_cmd(w[r].cfg)
       IN  w' = [w EXCEPT ![r] =
                    [Emit(r, <<LogLine("Command:"), LogLine(CommandLine(cmd))>>)
                        EXCEPT !.pc = "popen", !.cmd = cmd]]
    /\ UNCHANGED <<uiVars, proc, created, direct>>

\* run: subprocess.Popen, which may raise
WorkerPopen(r) ==
    /\ w[r].pc = "popen"
    /\ \E ok \in BOOLEAN :
          IF ok
          THEN /\ proc' = [proc EXCEPT ![r] = [NoProc EXCEPT !.state = "running"]]
               /\ w' = [w EXCEPT ![r] = [w[r] EXCEPT !.pc = "read", !.percent = 0]]
          ELSE /\ proc' = proc
               /\ w' = [w EXCEPT ![r] =
                          [Emit(r, <<Finished(FALSE, "Failed to start yt-dlp: " \o PopenError)>>)
                              EXCEPT !.pc = "done"]]
    /\ UNCHANGED <<uiVars, created, direct>>

\* the reading loop with the test of the flag after the line was forwarded
WorkerRead_StopAfterForward(r) ==
    /\ w[r].pc = "read"
    /\ IF proc[r].out # <<>>
       THEN LET item == Head(proc[r].out)
            IN  IF item.raises
                THEN /\ w' = [w EXCEPT ![r] =
                                [Emit(r, <<Finished(FALSE, "Error during download: " \o item.text)>>)
                                    EXCEPT !.pc = "done"]]
                     /\ proc' = [proc EXCEPT ![r].out = Tail(@)]
                ELSE IF w[r].stop
                THEN /\ w' = [w EXCEPT ![r] =
                                [Emit(r, LineSignals(item.text)
                                         \o <<Finished(FALSE, "Download canceled.")>>)
                                    EXCEPT !.pc = "done"]]
                     /\ proc' = [proc EXCEPT ![r].out = Tail(@), ![r].term = TRUE]
                ELSE /\ w' = [w EXCEPT ![r] =
                                [Emit(r, LineSignals(item.text))
                                    EXCEPT !.percent = LinePercent(item.text, @)]]
                     /\ proc' = [proc EXCEPT ![r].out = Tail(@)]
       ELSE /\ proc[r].state = "exited"
            /\ w' = [w EXCEPT ![r].pc = "wait"]
            /\ proc' = proc
    /\ UNCHANGED <<uiVars, created, direct>>

\* the reading loop without the return after the canceled signal
WorkerRead_NoReturnOnCancel(r) ==
    /\ w[r].pc = "read"
    /\ IF proc[r].out # <<>>
       THEN LET item == Head(proc[r].out)
            IN  IF item.raises
                THEN /\ w' = [w EXCEPT ![r] =
                                [Emit(r, <<Finished(FALSE, "Error during download: " \o item.text)>>)
                                    EXCEPT !.pc = "done"]]
                     /\ proc' = [proc EXCEPT ![r].out = Tail(@)]
                ELSE /\ w' = [w EXCEPT ![r] =
                                [Emit(r, (IF w[r].stop
                                          THEN <<Finished(FALSE, "Download canceled.")>>
                                          ELSE <<>>) \o LineSignals(item.text))
                                    EXCEPT !.percent = LinePercent(item.text, @)]]
                     /\ proc' = [proc EXCEPT ![r].out = Tail(@), ![r].term = @ \/ w[r].stop]
       ELSE /\ proc[r].state = "exited"
            /\ w' = [w EXCEPT ![r].pc = "wait"]
            /\ proc' = proc
    /\ UNCHANGED <<uiVars, created, direct>>

\* run: one pass of `for line in proc.stdout`, or its end at end-of-stream
WorkerRead(r) ==
    /\ w[r].pc = "read"
    /\ IF proc[r].out # <<>>
       THEN LET item == Head(proc[r].out)
            IN  IF item.raises
                THEN /\ w' = [w EXCEPT ![r] =
                                [Emit(r, <<Finished(FALSE, "Error during download: " \o item.text)>>)
                                    EXCEPT !.pc = "done"]]
                     /\ proc' = [proc EXCEPT ![r].out = Tail(@)]
                ELSE IF w[r].stop
                THEN /\ w' = [w EXCEPT ![r] =
                                [Emit(r, <<Finished(FALSE, "Download canceled.")>>)
                                    EXCEPT !.pc = "done"]]
                     /\ proc' = [proc EXCEPT ![r].out = Tail(@), ![r].term = TRUE]
                ELSE /\ w' = [w EXCEPT ![r] =
                                [Emit(r, LineSignals(item.text))
                                    EXCEPT !.percent = LinePercent(item.text, @)]]
                     /\ proc' = [proc EXCEPT ![r].out = Tail(@)]
       ELSE /\ proc[r].state = "exited"
            /\ w' = [w EXCEPT ![r].pc = "wait"]
            /\ proc' = proc
    /\ UNCHANGED <<uiVars, created, direct>>

\* the exit step without the final percent report
WorkerWait_NoFinalPercent(r) ==
    /\ w[r].pc = "wait"
    /\ proc[r].state = "exited"
    /\ LET ret == proc[r].code
       IN  w' = [w EXCEPT ![r] =
                    [Emit(r, IF ret = 0
                             THEN <<Finished(TRUE, "Download completed.")>>
                             ELSE <<Finished(FALSE, "yt-dlp exited with code " \o str(ret) \o ".")>>)
                        EXCEPT !.pc = "done", !.ret = <<ret>>]]
    /\ UNCHANGED <<uiVars, proc, created, direct>>

\* run: proc.wait() and the outcome decided by the exit code
WorkerWait(r) ==
    /\ w[r].pc = "wait"
    /\ proc[r].state = "exited"
    /\ LET ret == proc[r].code
       IN  w' = [w EXCEPT ![r] =
                    [Emit(r, IF ret = 0
                             THEN <<Progress(100), Finished(TRUE, "Download completed.")>>
                             ELSE <<Finished(FALSE, "yt-dlp exited with code " \o str(ret) \o ".")>>)
                        EXCEPT !.pc = "done", !.ret = <<ret>>]]
    /\ UNCHANGED <<uiVars, proc, created, direct>>

-----------------------------------------------------------------------------
(* The child process *)

\* the child writes one more line to its output
ProcEmit(r) ==
    /\ proc[r].state = "running"
    /\ w[r].pc = "read"
    /\ proc[r].nout < MaxLines
    /\ \E item \in ProcItems :
          proc' = [proc EXCEPT ![r].out = Append(@, item), ![r].nout = @ + 1]
    /\ UNCHANGED <<uiVars, w, created, direct>>

\* the child ends, by itself or because of the terminate() it was sent
ProcExit(r) ==
    /\ proc[r].state = "running"
    /\ \E code \in ExitCodes \cup (IF proc[r].term THEN {TermCode} ELSE {}) :
          proc' = [proc EXCEPT ![r] =
                      IF w[r].pc = "none" THEN NoProc
                      ELSE [@ EXCEPT !.state = "exited", !.code = code]]
    /\ UNCHANGED <<uiVars, w, created, direct>>

\* DownloadWorker.stop called by the code that drives the worker directly
StopDirect(r) ==
    /\ direct
    /\ w[r].pc \notin {"none", "done"}
    /\ ~w[r].stop
    /\ w' = [w EXCEPT ![r] = stop(@)]
    /\ UNCHANGED <<uiVars, proc, created, direct>>

-----------------------------------------------------------------------------
(* DarkBlackUI handlers, run on the interface thread *)

UrlInputs == {"", "  ", " https://example.com/v ", "ftp://example.com/v"}

\* a message box: its kind, its text, and the log line its caller appends
\* once the box returns ("" when it appends none)
MessageBox(kind, text, then) == [kind |-> kind, text |-> text, then |-> then]

\* the event loop runs, in the window's or in a message box's exec(): no
\* handler is executing on the interface thread
Running == ~direct /\ ~closed /\ frame = <<>>

\* the window takes input: no modal message box is open
Interactive == Running /\ dialogs = <<>>

\* the user edits the URL field
EditUrl(u) ==
    /\ Interactive
    /\ enabled.inputs
    /\ u # ui.url_edit
    /\ ui' = [ui EXCEPT !.url_edit = u]
    /\ UNCHANGED <<enabled, worker, log_view, top_progress, dialogs, closed, frame, cancels,
                   w, proc, created, direct>>

\* the user picks another mode: currentIndexChanged calls toggle_mode
SelectMode(m) ==
    /\ Interactive
    /\ enabled.inputs
    /\ m # ui.mode_combo
    /\ ui' = [ui EXCEPT !.mode_combo = m]
    /\ enabled' = toggle_mode(enabled, m)
    /\ UNCHANGED <<worker, log_view, top_progress, dialogs, closed, frame, cancels,
                   w, proc, created, direct>>

\* start_download, a click on the start button, up to worker.start(): from
\* there on the worker thread runs while the handler goes on
start_download ==
    /\ Interactive
    /\ enabled.start
    /\ created < MaxRuns
    /\ IF ValidationError(ui) # ""
       THEN /\ dialogs' = <<MessageBox("critical", ValidationError(ui), "")>>
            /\ UNCHANGED <<ui, enabled, worker, log_view, top_progress, cancels,
                           w, created, frame>>
       ELSE LET cfg == build_config(Validated(ui))
                r == created + 1
            IN  /\ ui' = Validated(ui)
                /\ top_progress' = 0
                /\ log_view' = <<>>
                /\ enabled' = toggle_controls(TRUE)
                /\ worker' = r
                /\ created' = r
                /\ w' = [w EXCEPT ![r] = NewWorker(cfg)]
                /\ frame' = <<cfg>>
                /\ cancels' = 0
                /\ dialogs' = dialogs
    /\ UNCHANGED <<closed, proc, direct>>

\* start_download after worker.start(): the summary is appended and the
\* handler returns to the event loop
start_download_summary ==
    /\ ~direct /\ ~closed
    /\ frame # <<>>
    /\ log_view' = log_view \o Summary(frame[1])
    /\ frame' = <<>>
    /\ UNCHANGED <<ui, enabled, worker, top_progress, dialogs, closed, cancels,
                   w, proc, created, direct>>

\* cancel_download, a click on the cancel button
cancel_download ==
    /\ Interactive
    /\ enabled.cancel
    /\ cancels < MaxCancels
    /\ cancels' = cancels + 1
    /\ IF worker # 0
       THEN /\ w' = [w EXCEPT ![worker] = stop(@)]
            /\ log_view' = Append(log_view, "Cancel requested...")
       ELSE UNCHANGED <<w, log_view>>
    /\ UNCHANGED <<ui, enabled, worker, top_progress, dialogs, closed, frame, proc, created,
                   direct>>

\* the box on_finished shows, and the line it appends when the box returns
FinishedDialog(success, msg) ==
    IF success
    THEN MessageBox("information", "Download completed successfully.",
                    "Download finished successfully.")
    ELSE MessageBox("critical", msg, "Error: " \o msg)

\* slots called directly from the worker thread: they run while
\* start_download is still executing
Deliver_DirectConnection(r) ==
    /\ ~direct /\ ~closed
    /\ w[r].delivered < Len(w[r].emitted)
    /\ LET s == w[r].emitted[w[r].delivered + 1]
       IN  IF s.sig = "finished"
           THEN /\ log_view' = Append(log_view, s.text)
                /\ enabled' = toggle_controls(FALSE)
                /\ worker' = 0
                /\ cancels' = 0
                /\ dialogs' = Append(dialogs, FinishedDialog(s.ok, s.text))
                /\ w' = [w EXCEPT ![r] = NoWorker]
                /\ proc' = [proc EXCEPT ![r] =
                              IF @.state = "running"
                              THEN [NoProc EXCEPT !.state = "running", !.term = proc[r].term]
                              ELSE NoProc]
                /\ UNCHANGED top_progress
           ELSE /\ w' = [w EXCEPT ![r].delivered = @ + 1]
                /\ top_progress' = IF s.sig = "progress" THEN s.n ELSE top_progress
                /\ log_view' = IF s.sig = "log_line" THEN Append(log_view, s.text) ELSE log_view
                /\ UNCHANGED <<enabled, worker, dialogs, proc, cancels>>
    /\ UNCHANGED <<ui, closed, frame, created, direct>>

\* the interface thread runs the slot of the next queued signal of worker r:
\* top_progress.setValue, append_log or on_finished
Deliver(r) ==
    /\ Running
    /\ w[r].delivered < Len(w[r].emitted)
    /\ LET s == w[r].emitted[w[r].delivered + 1]
       IN  IF s.sig = "finished"
           THEN /\ log_view' = Append(log_view, s.text)
                /\ enabled' = toggle_controls(FALSE)
                /\ worker' = 0
                /\ cancels' = 0
                /\ dialogs' = Append(dialogs, FinishedDialog(s.ok, s.text))
                /\ w' = [w EXCEPT ![r] = NoWorker]
                /\ proc' = [proc EXCEPT ![r] =
                              IF @.state = "running"
                              THEN [NoProc EXCEPT !.state = "running", !.term = proc[r].term]
                              ELSE NoProc]
                /\ UNCHANGED top_progress
           ELSE /\ w' = [w EXCEPT ![r].delivered = @ + 1]
                /\ top_progress' = IF s.sig = "progress" THEN s.n ELSE top_progress
                /\ log_view' = IF s.sig = "log_line" THEN Append(log_view, s.text) ELSE log_view
                /\ UNCHANGED <<enabled, worker, dialogs, proc, cancels>>
    /\ UNCHANGED <<ui, closed, frame, created, direct>>

\* a close handler that asks whether to quit without looking at the worker
close_event_NoWorkerCheck ==
    /\ Interactive
    /\ dialogs' = <<MessageBox("question", "Do you really want to quit?", "")>>
    /\ UNCHANGED <<ui, enabled, worker, log_view, top_progress, closed, frame, cancels,
                   w, proc, created, direct>>

\* main._close_event
close_event ==
    /\ Interactive
    /\ dialogs' =
          IF worker # 0
          THEN <<MessageBox("warning", "A download is running. Cancel it before closing.", "")>>
          ELSE <<MessageBox("question", "Do you really want to quit?", "")>>
    /\ UNCHANGED <<ui, enabled, worker, log_view, top_progress, closed, frame, cancels,
                   w, proc, created, direct>>

\* the user answers the topmost message box; the handler that opened it goes
\* on: on_finished appends its second line, _close_event accepts on Yes
Dismiss ==
    /\ Running
    /\ dialogs # <<>>
    /\ LET box == dialogs[Len(dialogs)]
       IN  /\ dialogs' = SubSeq(dialogs, 1, Len(dialogs) - 1)
           /\ log_view' = IF box.then # "" THEN Append(log_view, box.then) ELSE log_view
           /\ \E yes \in BOOLEAN : closed' = (box.kind = "question" /\ yes)
    /\ UNCHANGED <<ui, enabled, worker, top_progress, frame, cancels, w, proc, created,
                   direct>>

-----------------------------------------------------------------------------
(* The program: the window after construction, or a worker driven directly *)

InitWindow ==
    /\ ui = DefaultUI
    /\ enabled = [start |-> TRUE, cancel |-> FALSE, inputs |-> TRUE,
                  video |-> TRUE, audio |-> FALSE]
    /\ worker = 0
    /\ log_view = <<>>
    /\ top_progress = 0
    /\ dialogs = <<>>
    /\ closed = FALSE
    /\ frame = <<>>
    /\ cancels = 0
    /\ w = [r \in Runs |-> NoWorker]
    /\ proc = [r \in Runs |-> NoProc]
    /\ created = 0
    /\ direct = FALSE

\* configurations handed to DownloadWorker without the window's validation
DirectUrls == {"", "  ", "https://example.com/v"}

InitDirect ==
    /\ ui = DefaultUI
    /\ enabled = [start |-> TRUE, cancel |-> FALSE, inputs |-> TRUE,
                  video |-> TRUE, audio |-> FALSE]
    /\ worker = 0
    /\ log_view = <<>>
    /\ top_progress = 0
    /\ dialogs = <<>>
    /\ closed = FALSE
    /\ frame = <<>>
    /\ cancels = 0
    /\ \E u \in DirectUrls :
          w = [r \in Runs |->
                 IF r = 1 THEN NewWorker([build_config(DefaultUI) EXCEPT !.url = u])
                 ELSE NoWorker]
    /\ proc = [r \in Runs |-> NoProc]
    /\ created = 1
    /\ direct = TRUE

Init == InitWindow \/ InitDirect

WorkerStep(r) ==
    \/ WorkerCheckUrl(r)
    \/ WorkerMkdir(r)
    \/ WorkerBuild(r)
    \/ WorkerPopen(r)
    \/ WorkerRead(r)
    \/ WorkerWait(r)

Next ==
    \/ \E r \in Runs : WorkerStep(r)
    \/ \E r \in Runs : ProcEmit(r)
    \/ \E r \in Runs : ProcExit(r)
    \/ \E r \in Runs : StopDirect(r)
    \/ \E r \in Runs : Deliver(r)
    \/ \E u \in UrlInputs : EditUrl(u)
    \/ \E m \in {"Video", "Audio"} : SelectMode(m)
    \/ start_download
    \/ start_download_summary
    \/ cancel_download
    \/ close_event
    \/ Dismiss

Spec == Init /\ [][Next]_vars

-----------------------------------------------------------------------------
(* Properties of the supervision of one run *)

Last(e) == e[Len(e)]

IsSubstring(t, s) == \E i \in 1..Len(s) : Slice(s, i, i + Len(t) - 1) = t

NumFinished(e) == Cardinality({i \in 1..Len(e) : e[i].sig = "finished"})

Terminated(r) == w[r].pc = "done"

\* C1 (as claimed): when stop() is called after the child was launched and
\* before the terminal signal, the terminal signal of that run is the
\* canceled one, and the window presents it neither as a success nor as an
\* error.
C1_CancelWhileRunningIsCanceled ==
    \A r \in Runs :
        (Terminated(r) /\ w[r].stopped_running) =>
            LET t == Last(w[r].emitted)
            IN  /\ t.sig = "finished"
                /\ t.text = "Download canceled."
                /\ ~t.ok
                /\ FinishedDialog(t.ok, t.text).kind \notin {"information", "critical"}

\* C2: the step that reads the exit code emits percent 100 and then the
\* success signal when the code is 0, and otherwise exactly one signal, a
\* failure whose message carries the code.
C2_ExitCodeDecidesOutcome ==
    [][\A r \in Runs :
          (w[r].pc = "wait" /\ w'[r].pc = "done") =>
              LET ret == proc[r].code
                  new == SubSeq(w'[r].emitted, Len(w[r].emitted) + 1, Len(w'[r].emitted))
              IN  /\ w'[r].ret = <<ret>>
                  /\ SubSeq(w'[r].emitted, 1, Len(w[r].emitted)) = w[r].emitted
                  /\ IF ret = 0
                     THEN new = <<Progress(100), Finished(TRUE, "Download completed.")>>
                     ELSE /\ Len(new) = 1
                          /\ new[1].sig = "finished"
                          /\ ~new[1].ok
                          /\ IsSubstring(str(ret), new[1].text)]_vars

\* a run ended with exit code 0 although no progress line was ever parsed
C2_Witness ==
    \E r \in Runs :
        /\ Terminated(r)
        /\ w[r].ret = <<0>>
        /\ \A i \in 1..(Len(w[r].emitted) - 2) : w[r].emitted[i].sig # "progress"
        /\ w[r].emitted[Len(w[r].emitted) - 1] = Progress(100)
        /\ Last(w[r].emitted).ok

BadUrl(text) ==
    LET url == strip(text)
    IN  url = "" \/ ~(Slice(url, 1, 7) = "http://" \/ Slice(url, 1, 8) = "https://")

\* C3: while the URL field, trimmed, is empty or lacks the http:// or https://
\* prefix, no step of the idle window creates a worker or spawns a process or
\* leaves the idle state of the controls; and a worker handed a blank URL
\* directly never has a process and ends with the failure signal alone.
C3_BadUrlStartsNothing ==
    /\ [][(~direct /\ worker = 0 /\ BadUrl(ui.url_edit)) =>
             /\ created' = created
             /\ worker' = 0
             /\ \A r \in Runs : w'[r].pc = "none"
             /\ \A r \in Runs : proc'[r].state = "running" => proc[r].state = "running"
             /\ enabled'.start /\ ~enabled'.cancel]_vars
    /\ [](\A r \in Runs :
            (direct /\ w[r].pc # "none" /\ strip(w[r].cfg.url) = "") =>
                /\ proc[r].state = "none"
                /\ w[r].pc \in {"start", "done"}
                /\ Terminated(r) => w[r].emitted = <<Finished(FALSE, "URL is required.")>>)

\* the start button was clicked on a URL without the prefix and the request
\* was turned down
C3_Witness ==
    /\ dialogs = <<MessageBox("critical", "URL must start with http:// or https://", "")>>
    /\ BadUrl(ui.url_edit)
    /\ worker = 0 /\ created = 0
    /\ enabled.start

\* C4 (as claimed): at most one worker is running and at most one child
\* process is alive at any time.
C4_AtMostOneWorkerAndProcess ==
    /\ Cardinality({r \in Runs : w[r].pc \notin {"none", "done"}}) <= 1
    /\ Cardinality({r \in Runs : proc[r].state = "running"}) <= 1

\* C5: a run emits at most one terminal signal, has emitted exactly one when
\* run() has returned, and the terminal signal is the last signal it emitted.
C5_ExactlyOneTerminalSignal ==
    \A r \in Runs :
        LET e == w[r].emitted
        IN  /\ NumFinished(e) <= 1
            /\ Terminated(r) <=> NumFinished(e) = 1
            /\ NumFinished(e) = 1 => Last(e).sig = "finished"

\* a run ended by an exception raised while reading the stream, after a line
\* had been forwarded
C5_Witness ==
    \E r \in Runs :
        /\ Terminated(r)
        /\ Len(w[r].emitted) > 3
        /\ Last(w[r].emitted) = Finished(FALSE, "Error during download: " \o ReadError)

-----------------------------------------------------------------------------
(* The reading loop on one line: a worker that is reading, with lines of *)
(* many shapes waiting in the pipe                                        *)

LinePrefixes == {"", "x ", "[download] 5 ", "[download]  7% then "}
LineMarkers == {"[download]", "[Download]", "download"}
LineGaps == {"", " ", "  ", "\t"}
LineNumbers == {"", "0", "42", "42.7", "42.", ".7", "150", "99.99", "100.0",
                "-5", "4 2", "1e2", "007"}
LineTails == {"", "%", "% of 10MiB", " %", "%%"}
LineEnds == {"\n", " \r\n"}

LineInputs ==
    {p \o m \o g \o n \o t \o e :
        p \in LinePrefixes, m \in LineMarkers, g \in LineGaps,
        n \in LineNumbers, t \in LineTails, e \in LineEnds}

TextItem(l) == [raises |-> FALSE, text |-> l]

DirectConfig == [build_config(DefaultUI) EXCEPT !.url = "https://example.com/v"]

\* the worker after WorkerPopen, the child having written `out` already
ReadingWorker ==
    [NewWorker(DirectConfig) EXCEPT
        !.pc = "read", !.cmd = build_cmd(DirectConfig),
        !.emitted = <<LogLine("Command:"), LogLine(CommandLine(build_cmd(DirectConfig)))>>]

InitLine ==
    /\ ui = DefaultUI
    /\ enabled = [start |-> TRUE, cancel |-> FALSE, inputs |-> TRUE,
                  video |-> TRUE, audio |-> FALSE]
    /\ worker = 0
    /\ log_view = <<>>
    /\ top_progress = 0
    /\ dialogs = <<>>
    /\ closed = FALSE
    /\ frame = <<>>
    /\ cancels = 0
    /\ w = [r \in Runs |-> IF r = 1 THEN ReadingWorker ELSE NoWorker]
    /\ \E out \in {<<TextItem(l)>> : l \in LineInputs}
                  \cup {<<TextItem(a), TextItem(b)>> : a \in ProcLines, b \in ProcLines} :
          proc = [r \in Runs |->
                    IF r = 1
                    THEN [NoProc EXCEPT !.state = "running", !.out = out, !.nout = Len(out)]
                    ELSE NoProc]
    /\ created = 1
    /\ direct = TRUE

NextLine ==
    \/ \E r \in Runs : WorkerRead(r)
    \/ \E r \in Runs : ProcExit(r)
    \/ \E r \in Runs : WorkerWait(r)

SpecLine == InitLine /\ [][NextLine]_vars

\* text of the form digits, or digits "." digits
Decimal(t) ==
    \E k \in 1..Len(t) :
        /\ \A i \in 1..k : Char(t, i) \in DigitChars
        /\ \/ k = Len(t)
           \/ /\ Char(t, k + 1) = "."
              /\ k + 2 <= Len(t)
              /\ \A i \in (k + 2)..Len(t) : Char(t, i) \in DigitChars

\* the places <<i, j, k>> of a line where the marker starts at i, whitespace
\* fills the gap up to j, a decimal number runs from j to k - 1 and a percent
\* sign stands at k
Announcements(s) ==
    LET markers == {i \in 1..Len(s) : Slice(s, i, i + 9) = "[download]"}
        percents == {k \in 1..Len(s) : Char(s, k) = "%"}
    IN  {a \in markers \X (1..Len(s)) \X percents :
            /\ a[2] > a[1] + 10
            /\ a[3] > a[2]
            /\ \A x \in (a[1] + 10)..(a[2] - 1) : Char(s, x) \in Whitespace
            /\ Decimal(SubSeq(s, a[2], a[3] - 1))}

\* the number of the leftmost announcement, truncated toward zero
AnnouncedPercent(s) ==
    LET first == CHOOSE a \in Announcements(s) : \A b \in Announcements(s) : a[1] <= b[1]
        number == SubSeq(s, first[2], first[3] - 1)
        whole == IF contains(number, ".")
                 THEN SubSeq(number, 1, (CHOOSE x \in 1..Len(number) : Char(number, x) = ".") - 1)
                 ELSE number
    IN  DigitsValue(whole)

\* text t is raw without its trailing whitespace
Forwards(t, raw) ==
    /\ Slice(raw, 1, Len(t)) = t
    /\ \A x \in (Len(t) + 1)..Len(raw) : Char(raw, x) \in Whitespace
    /\ t = "" \/ Char(t, Len(t)) \notin Whitespace

\* C7: a pass of the loop on a line forwards the line and, when the line
\* holds an announcement (marker, whitespace, decimal number, percent sign),
\* reports exactly one percent: the number truncated toward zero and clamped
\* to 0..100, whatever was reported before; otherwise it reports no percent.
C7_LineYieldsLineAndPercent ==
    [][\A r \in Runs :
          (/\ w[r].pc = "read" /\ w'[r].pc = "read"
           /\ proc[r].out # <<>> /\ proc'[r].out = Tail(proc[r].out)) =>
              LET raw == Head(proc[r].out).text
                  new == SubSeq(w'[r].emitted, Len(w[r].emitted) + 1, Len(w'[r].emitted))
              IN  /\ SubSeq(w'[r].emitted, 1, Len(w[r].emitted)) = w[r].emitted
                  /\ Len(new) >= 1
                  /\ new[1].sig = "log_line" /\ Forwards(new[1].text, raw)
                  /\ IF Announcements(raw) # {}
                     THEN /\ Len(new) = 2
                          /\ new[2].sig = "progress"
                          /\ new[2].n \in 0..100
                          /\ new[2].n = Min(AnnouncedPercent(raw), 100)
                     ELSE Len(new) = 1]_vars

\* the line of 42.7% was forwarded whole and reported as 42, after a report
\* of 100
C7_Witness ==
    \E r \in Runs :
        /\ Len(w[r].emitted) = 6
        /\ SubSeq(w[r].emitted, 4, 6) =
              <<Progress(100), LogLine("[download]  42.7% of 10MiB"), Progress(42)>>

-----------------------------------------------------------------------------
(* build_cmd on many requests: the form filled in many ways before the   *)
(* start button is clicked, and configurations handed to a worker directly *)

FormUrl == " https://example.com/v "

\* the mode, the video fields and the main audio fields
FormsByFormat ==
    {[DefaultUI EXCEPT !.url_edit = FormUrl, !.mode_combo = m,
                       !.video_quality_combo = q, !.video_container_combo = c,
                       !.audio_format_combo = f, !.audio_bitrate_combo = b] :
        m \in {"Video", "Audio"}, q \in Range(VIDEO_QUALITIES), c \in Range(VIDEO_CONTAINERS),
        f \in Range(AUDIO_FORMATS), b \in Range(AUDIO_BITRATES)}

\* the advanced audio fields
FormsByAudioOption ==
    {[DefaultUI EXCEPT !.url_edit = FormUrl, !.mode_combo = m,
                       !.video_quality_combo = q, !.audio_format_combo = f,
                       !.mp3_norm_check = n, !.flac_slider = l, !.ogg_combo = o,
                       !.m4a_combo = a, !.sample_rate_combo = s, !.channels_combo = ch] :
        m \in {"Video", "Audio"}, q \in {"Best", "1080p"}, f \in Range(AUDIO_FORMATS),
        n \in BOOLEAN, l \in {0, 8}, o \in {"q0", "q10"}, a \in Range(AAC_PROFILES),
        s \in {"", "44100"}, ch \in Range(CHANNELS)}

\* the naming, metadata and playlist fields, and the URL
FormsByNaming ==
    {[DefaultUI EXCEPT !.url_edit = u, !.mode_combo = m,
                       !.template_edit = t, !.meta_title = ti, !.meta_artist = ar,
                       !.ffmpeg_args = x, !.allow_playlist = al, !.force_single = fs] :
        u \in {FormUrl, "http://example.com/a", "example.com"}, m \in {"Video", "Audio"},
        t \in {"", "  ", DEFAULT_TEMPLATE, " clip-%(id)s.%(ext)s "},
        ti \in {"", "  ", " My Song ", "/tmp/song"},
        ar \in {"", " A B "}, x \in {"", " -threads 2 ", "--yes-playlist"},
        al \in BOOLEAN, fs \in BOOLEAN}

Forms == FormsByFormat \cup FormsByAudioOption \cup FormsByNaming

DirectConfigs ==
    {[DirectConfig EXCEPT !.url = u, !.mode = m, !.video_quality = q,
                          !.video_container = c, !.name_template = t,
                          !.meta_title_override = ti,
                          !.allow_playlist = al, !.force_single = fs] :
        u \in {"", "https://example.com/v"}, m \in {"video", "audio"},
        q \in {"Best", "4K", "240p", ""}, c \in {"mp4", "WEBM"},
        t \in {"", "clip-%(id)s.%(ext)s"}, ti \in {"", "  ", " My Song "},
        al \in BOOLEAN, fs \in BOOLEAN}

InitCmd ==
    /\ worker = 0
    /\ log_view = <<>>
    /\ top_progress = 0
    /\ dialogs = <<>>
    /\ closed = FALSE
    /\ frame = <<>>
    /\ cancels = 0
    /\ proc = [r \in Runs |-> NoProc]
    /\ \/ /\ direct = FALSE
          /\ ui \in Forms
          /\ enabled = toggle_mode(toggle_controls(FALSE), ui.mode_combo)
          /\ w = [r \in Runs |-> NoWorker]
          /\ created = 0
       \/ /\ direct = TRUE
          /\ ui = DefaultUI
          /\ enabled = toggle_mode(toggle_controls(FALSE), ui.mode_combo)
          /\ \E cfg \in DirectConfigs :
                w = [r \in Runs |-> IF r = 1 THEN NewWorker(cfg) ELSE NoWorker]
          /\ created = 1

NextCmd ==
    \/ start_download
    \/ start_download_summary
    \/ \E r \in Runs : WorkerCheckUrl(r)
    \/ \E r \in Runs : WorkerMkdir(r)
    \/ \E r \in Runs : WorkerBuild(r)

SpecCmd == InitCmd /\ [][NextCmd]_vars

\* worker r has built its command
Built(r) == w[r].cmd # <<>>

AudioFieldChoices ==
    {[audio_format |-> "mp3", audio_bitrate |-> "128", mp3_normalize |-> FALSE,
      flac_comp_level |-> 5, ogg_quality |-> "q0", aac_profile |-> "LC",
      sample_rate |-> "", channels |-> "auto"],
     [audio_format |-> "flac", audio_bitrate |-> "320", mp3_normalize |-> TRUE,
      flac_comp_level |-> 8, ogg_quality |-> "q10", aac_profile |-> "HE",
      sample_rate |-> "48000", channels |-> "mono"],
     [audio_format |-> "m4a", audio_bitrate |-> "192", mp3_normalize |-> TRUE,
      flac_comp_level |-> 0, ogg_quality |-> "q3", aac_profile |-> "HE",
      sample_rate |-> "96000", channels |-> "stereo"],
     [audio_format |-> "opus", audio_bitrate |-> "256", mp3_normalize |-> FALSE,
      flac_comp_level |-> 1, ogg_quality |-> "q7", aac_profile |-> "LC",
      sample_rate |-> "22050", channels |-> "stereo"]}

VideoFieldChoices ==
    {[video_quality |-> q, video_container |-> c] :
        q \in Range(VIDEO_QUALITIES), c \in Range(VIDEO_CONTAINERS)}

WithAudioFields(cfg, a) ==
    [cfg EXCEPT !.audio_format = a.audio_format, !.audio_bitrate = a.audio_bitrate,
                !.mp3_normalize = a.mp3_normalize, !.flac_comp_level = a.flac_comp_level,
                !.ogg_quality = a.ogg_quality, !.aac_profile = a.aac_profile,
                !.sample_rate = a.sample_rate, !.channels = a.channels]

WithVideoFields(cfg, v) ==
    [cfg EXCEPT !.video_quality = v.video_quality, !.video_container = v.video_container]

\* C6: the command built for a video request is the command of every request
\* that differs from it in audio-only fields alone, and the command built for
\* an audio request is the command of every request that differs from it in
\* the video quality and container alone.
C6_InactiveGroupIgnored ==
    \A r \in Runs :
        Built(r) =>
            /\ w[r].cfg.mode = "video" =>
                  \A a \in AudioFieldChoices :
                      build_cmd(WithAudioFields(w[r].cfg, a)) = w[r].cmd
            /\ w[r].cfg.mode = "audio" =>
                  \A v \in VideoFieldChoices :
                      build_cmd(WithVideoFields(w[r].cfg, v)) = w[r].cmd

\* a video request whose audio fields are all away from their defaults has
\* its command built
C6_Witness ==
    \E r \in Runs :
        /\ Built(r)
        /\ w[r].cfg.mode = "video"
        /\ w[r].cfg.audio_format = "flac" /\ w[r].cfg.mp3_normalize
        /\ w[r].cfg.flac_comp_level = 8 /\ w[r].cfg.ogg_quality = "q10"
        /\ w[r].cfg.aac_profile = "HE" /\ w[r].cfg.sample_rate = "44100"
        /\ w[r].cfg.channels = "mono"

\* the tiers and their pixel heights
TierHeight ==
    <<<<"8K", "4320">>, <<"4K", "2160">>, <<"1440p", "1440">>, <<"1080p", "1080">>,
      <<"720p", "720">>, <<"480p", "480">>, <<"360p", "360">>>>

\* the four arguments before the URL
FormatPart(cmd) == SubSeq(cmd, Len(cmd) - 4, Len(cmd) - 1)

\* C8: the command of a video request ends, before the URL, with the format
\* selector and the merge into the chosen container; the selector is the
\* unconstrained one for Best and for a quality without a mapping, and for a
\* tier it caps both the primary and the fallback selector at the tier's height.
C8_VideoSelectorByTier ==
    \A r \in Runs :
        (Built(r) /\ w[r].cfg.mode = "video") =>
            LET cfg == w[r].cfg
                part == FormatPart(w[r].cmd)
                tiers == {i \in 1..Len(TierHeight) : TierHeight[i][1] = cfg.video_quality}
            IN  /\ part[1] = "-f"
                /\ part[3] = "--merge-output-format"
                /\ lower(part[4]) = lower(cfg.video_container)
                /\ IF tiers = {}
                   THEN part[2] = "bestvideo+bestaudio/best"
                   ELSE \A i \in tiers :
                           part[2] = "bestvideo[height<=" \o TierHeight[i][2]
                                     \o "]+bestaudio/best[height<=" \o TierHeight[i][2] \o "]"

\* the command of a 4K request into webm was built
C8_Witness ==
    \E r \in Runs :
        /\ Built(r)
        /\ w[r].cfg.mode = "video" /\ w[r].cfg.video_quality = "4K"
        /\ w[r].cfg.video_container = "webm"
        /\ FormatPart(w[r].cmd)[2] = "bestvideo[height<=2160]+bestaudio/best[height<=2160]"

\* the argument after the first "-o"
TemplateValue(cmd) == cmd[(CHOOSE i \in 1..Len(cmd) : cmd[i] = "-o" /\ \A j \in 1..(i - 1) : cmd[j] # "-o") + 1]

\* C9: the value after the output-template flag is the output directory
\* joined with the trimmed title override and the extension placeholder when
\* the override is not blank, whatever the template is; else the directory
\* joined with the template, or with the default pattern for a blank template.
C9_OutputTemplate ==
    \A r \in Runs :
        Built(r) =>
            LET cfg == w[r].cfg
                title == strip(cfg.meta_title_override)
            IN  /\ \E i \in 1..Len(w[r].cmd) : w[r].cmd[i] = "-o"
                /\ TemplateValue(w[r].cmd) =
                      PathJoin(cfg.out_dir,
                               IF title # "" THEN title \o ".%(ext)s"
                               ELSE IF strip(cfg.name_template) = "" THEN "%(title)s.%(ext)s"
                               ELSE cfg.name_template)

\* a command was built for a title override with spaces around it and a
\* template of its own
C9_Witness ==
    \E r \in Runs :
        /\ Built(r)
        /\ w[r].cfg.meta_title_override = " My Song "
        /\ w[r].cfg.name_template = "clip-%(id)s.%(ext)s"
        /\ TemplateValue(w[r].cmd) = "/dl/My Song.%(ext)s"

PlaylistFlags(cmd) == {i \in 1..Len(cmd) : cmd[i] \in {"--yes-playlist", "--no-playlist"}}

\* the arguments of a command that are options, not the value of an option
\* and not the URL
OptionPlaces(cmd) ==
    {i \in 1..(Len(cmd) - 1) :
        i = 1 \/ cmd[i - 1] \notin {"-m", "-o", "--postprocessor-args", "-f",
                                    "--audio-format", "--audio-quality",
                                    "--merge-output-format"}}

\* C10: a command has exactly one playlist-mode flag, the allow-playlist one
\* exactly when playlists are allowed and a single item is not forced.
C10_OnePlaylistFlag ==
    \A r \in Runs :
        Built(r) =>
            LET flags == PlaylistFlags(w[r].cmd) \cap OptionPlaces(w[r].cmd)
            IN  /\ Cardinality(flags) = 1
                /\ \A i \in flags :
                      w[r].cmd[i] = "--yes-playlist"
                          <=> (w[r].cfg.allow_playlist /\ ~w[r].cfg.force_single)

\* playlists allowed and a single item forced: the single-item flag was built
C10_Witness ==
    \E r \in Runs :
        /\ Built(r)
        /\ w[r].cfg.allow_playlist /\ w[r].cfg.force_single
        /\ w[r].cmd[5] = "--no-playlist"

-----------------------------------------------------------------------------
(* Properties of the start of a run, of cancellation and of the window *)

MkdirFailure == Finished(FALSE, "Cannot create output folder: " \o MkdirError)
PopenFailure == Finished(FALSE, "Failed to start yt-dlp: " \o PopenError)

\* C11: a worker that has reported the failure of the directory creation or
\* of the launch has no child process, then and for the rest of its run; the
\* directory failure is the only signal of its run (the command was neither
\* built nor launched); and a child is only ever launched by a worker that is
\* past the directory creation, at its launch step.
C11_NoChildAfterStartFailure ==
    /\ [](\A r \in Runs :
            /\ (w[r].emitted # <<>> /\ Last(w[r].emitted) \in {MkdirFailure, PopenFailure}) =>
                  /\ Terminated(r)
                  /\ proc[r].state = "none"
            /\ (\E i \in 1..Len(w[r].emitted) : w[r].emitted[i] = MkdirFailure) =>
                  /\ w[r].emitted = <<MkdirFailure>>
                  /\ w[r].cmd = <<>>)
    /\ [][\A r \in Runs :
            /\ (w[r].pc = "mkdir" /\ w'[r].pc # "mkdir") =>
                  /\ proc'[r].state = "none"
                  /\ w'[r].pc \in {"build", "done"}
                  /\ w'[r].pc = "done" => w'[r].emitted = <<MkdirFailure>>
            /\ (proc[r].state = "none" /\ proc'[r].state # "none") => w[r].pc = "popen"
            /\ (w[r].pc = "popen" /\ w'[r].pc = "done") =>
                  /\ proc'[r].state = "none"
                  /\ Last(w'[r].emitted) = PopenFailure]_vars

\* a run ended by the failure of the directory creation, with no child
C11_Witness ==
    \E r \in Runs :
        /\ Terminated(r)
        /\ w[r].emitted = <<MkdirFailure>>
        /\ proc[r].state = "none"

Canceled == Finished(FALSE, "Download canceled.")

\* C12: a reading worker whose flag is set and that reads a line asks the
\* child to terminate and emits the canceled signal and nothing else, so
\* neither that line nor a later one is forwarded; while the flag is set and
\* the child neither writes nor ends, the worker emits nothing and does not
\* ask the child to terminate; and termination is only ever asked for by a
\* worker that reads a line with the flag set.
C12_CancelSeenOnNextLine ==
    [][\A r \in Runs :
          /\ (/\ w[r].pc = "read" /\ w[r].stop
              /\ proc[r].out # <<>> /\ ~Head(proc[r].out).raises
              /\ proc'[r].out = Tail(proc[r].out)) =>
                 /\ w'[r].pc = "done"
                 /\ w'[r].emitted = Append(w[r].emitted, Canceled)
                 /\ proc'[r].term
          /\ (/\ w[r].pc = "read" /\ w[r].stop
              /\ proc[r].out = <<>> /\ proc[r].state = "running") =>
                 /\ w'[r].pc = "read"
                 /\ w'[r].emitted = w[r].emitted
                 /\ proc'[r].term = proc[r].term
          /\ (~proc[r].term /\ proc'[r].term) =>
                 /\ w[r].pc = "read" /\ w[r].stop
                 /\ proc[r].out # <<>> /\ proc'[r].out = Tail(proc[r].out)]_vars

\* the flag was set while the worker was reading, after a line had been
\* forwarded; the next line ended the run as canceled, the child asked to
\* terminate and still alive
C12_Witness ==
    \E r \in Runs :
        /\ Terminated(r)
        /\ w[r].stopped_running
        /\ Len(w[r].emitted) > 3
        /\ Last(w[r].emitted) = Canceled
        /\ \A i \in 1..(Len(w[r].emitted) - 1) : w[r].emitted[i].sig # "finished"
        /\ proc[r].term /\ proc[r].state = "running"

\* a worker object of the window exists and on_finished has not handled
\* its terminal signal
InFlight(r) == w[r].pc # "none"

\* C13: in the window, the worker reference names a run exactly from
\* start_download until on_finished has handled that run's terminal signal;
\* while it is set no quit question is open and the window is not closed,
\* and the window closes only from a state where the reference is unset, so
\* it never closes while a worker is in flight.
C13_CloseOnlyWithoutWorker ==
    /\ [](~direct =>
            /\ \A r \in Runs : InFlight(r) <=> worker = r
            /\ worker # 0 =>
                  /\ ~closed
                  /\ \A i \in 1..Len(dialogs) : dialogs[i].kind # "question"
            /\ closed => \A r \in Runs : ~InFlight(r))
    /\ [][(worker # 0 \/ \E r \in Runs : InFlight(r) /\ ~direct) => ~closed']_vars
    /\ [][(~closed /\ closed') =>
             /\ worker = 0
             /\ dialogs # <<>> /\ Last(dialogs).kind = "question"]_vars

\* a close request was refused with the warning while the worker was
\* reading the output of its running child
C13_Witness ==
    /\ ~direct /\ ~closed
    /\ worker # 0
    /\ w[worker].pc = "read" /\ proc[worker].state = "running"
    /\ dialogs # <<>> /\ Last(dialogs).kind = "warning"

\* C14: in the window, whenever no worker is running, the video quality and
\* container controls are enabled exactly when the mode is Video and the
\* audio format and bitrate controls exactly when it is Audio.
C14_IdleControlsFollowMode ==
    (~direct /\ worker = 0 /\ frame = <<>>) =>
        /\ enabled.video <=> (lower(ui.mode_combo) = "video")
        /\ enabled.audio <=> (lower(ui.mode_combo) # "video")

\* the lines of a log that the window did not write on a cancel click
WorkerLines(log) == SelectSeq(log, LAMBDA t : t # "Cancel requested...")

\* the texts of the log_line signals of a sequence of signals, in order
LogTexts(sigs) ==
    LET ls == SelectSeq(sigs, LAMBDA s : s.sig = "log_line")
    IN  [i \in 1..Len(ls) |-> ls[i].text]

\* the log is the summary block of run r followed by the texts of the
\* log_line signals delivered so far, in the order the worker emitted them
SummaryThenWorkerLines(r) ==
    LET S == Summary(w[r].cfg)
    IN  /\ Len(log_view) >= Len(S)
        /\ SubSeq(log_view, 1, Len(S)) = S
        /\ WorkerLines(SubSeq(log_view, Len(S) + 1, Len(log_view)))
              = LogTexts(SubSeq(w[r].emitted, 1, w[r].delivered))

\* C15: in the window, while start_download is executing after
\* worker.start() the log is empty and no signal of the worker has been
\* delivered, whatever the worker has emitted by then; once it has returned
\* the log is the summary block followed by the worker's log lines in the
\* order they were emitted; and the terminal message is appended last, after
\* the summary block and after every other signal of the run.
C15_SummaryBeforeWorkerLines ==
    /\ []((~direct /\ worker # 0) =>
            IF frame # <<>>
            THEN /\ log_view = <<>>
                 /\ w[worker].delivered = 0
                 /\ frame[1] = w[worker].cfg
            ELSE SummaryThenWorkerLines(worker))
    /\ [][(~direct /\ worker # 0 /\ worker' = 0) =>
             /\ frame = <<>>
             /\ SummaryThenWorkerLines(worker)
             /\ w[worker].delivered = Len(w[worker].emitted) - 1
             /\ Last(w[worker].emitted).sig = "finished"
             /\ log_view' = Append(log_view, Last(w[worker].emitted).text)]_vars

\* the worker has ended and all its signals but the terminal one are
\* delivered: the log is the summary block, then the command line and the
\* lines of the child
C15_Witness ==
    /\ ~direct /\ worker # 0 /\ frame = <<>>
    /\ Terminated(worker)
    /\ w[worker].delivered = Len(w[worker].emitted) - 1
    /\ Len(LogTexts(w[worker].emitted)) >= 2
    /\ log_view = Summary(w[worker].cfg) \o LogTexts(w[worker].emitted)

====
